---- MODULE Spec2Model ----
(***************************************************************************)
(* Kill-event ingestion pipeline (ScalableUnifiedProcessor) and automated  *)
(* leaderboard tasks (AutomatedLeaderboard) of bot/cogs/stats.py.          *)
(*                                                                         *)
(* The program runs on one asyncio event loop: a coroutine runs without    *)
(* interruption from one real suspension point (an awaited call to the     *)
(* persistence layer, to the chat platform, to the entitlement provider,   *)
(* asyncio.sleep, asyncio.gather) to the next.  Awaiting one of the cog's  *)
(* own coroutines that never suspends (validate_kill_event, is_flood) does *)
(* not yield.  Every action below is one such uninterrupted run.           *)
(*                                                                         *)
(* datetime, asyncio, logger and EmbedFactory are taken to resolve to the  *)
(* modules of the same name.  The persistence manager (bot.db_manager) is  *)
(* not part of the sources; its operations are modelled from the          *)
(* specification (DbGetPlayerStats, DbUpdatePlayerStats).                  *)
(***************************************************************************)
EXTENDS Integers, Sequences, FiniteSets, Bags, TLC

(***************************************************************************)
(* Program constants (ScalableUnifiedProcessor.__init__, process_kill_     *)
(* events).                                                                *)
(***************************************************************************)
buffer_size == 50
batch_size == 20
flood_threshold == 5
time_window == 60

(***************************************************************************)
(* Bounds of the model.                                                    *)
(***************************************************************************)
\* events the log watcher delivers in the statistics specification
MaxEvents == 2
\* process_kill_events invocations in progress at the same time
MaxFlushers == 2
\* add_kill_event calls in the buffer specification
MaxAdds == 52

VARIABLES
    processor_enabled,   \* self.processor_enabled
    processor_running,   \* self.processor_running
    kill_event_buffer,   \* self.kill_event_buffer
    recent_kill_times,   \* self.recent_kill_times (a missing key is <<>>)
    bot_ready,           \* self.bot.is_ready()
    db_present,          \* bot has a truthy db_manager
    has_v2,              \* bot.premium_manager_v2 offers has_premium_access
    premium_guilds,      \* guilds for which has_premium_access answers true
    stats,               \* persisted PlayerStatRecord per player, or None
    now,                 \* the clock read by datetime.utcnow(), in seconds
    flushers,            \* process_kill_events invocations and their gather
    running_tasks,       \* AutomatedLeaderboard.running_tasks
    lb_tasks,            \* the run_leaderboard_task tasks of the event loop
    lb_configs,          \* persisted automated_leaderboards configurations
    lb_cmds,             \* create/remove command handlers and cog_load in progress
    cog_loaded,          \* cog_load has been called
    checks,              \* history: the is_flood calls of the flood specification
    solo,                \* history: the statistics when a unit was dispatched alone
    added,               \* history: number of events appended so far
    last                 \* history: what the most recent step did

vars == <<processor_enabled, processor_running, kill_event_buffer,
          recent_kill_times, bot_ready, db_present, has_v2, premium_guilds,
          stats, now, flushers, running_tasks, lb_tasks, lb_configs, lb_cmds,
          cog_loaded, checks, solo, added, last>>

envVars == <<bot_ready, db_present, has_v2, premium_guilds>>

lbVars == <<running_tasks, lb_tasks, lb_configs, lb_cmds, cog_loaded>>

(***************************************************************************)
(* Kill events.  An event is a mapping; ty gives, for every required key,  *)
(* the Python type of the value stored under it ("absent": no such key).   *)
(* guild_id, killer, victim and is_suicide are the values read by          *)
(* process_single_kill_event when the event is well formed.                *)
(***************************************************************************)
required_fields ==
    <<"guild_id", "killer", "victim", "weapon", "timestamp", "server_id",
      "is_suicide">>

Fields == {required_fields[i] : i \in 1..Len(required_fields)}

Tags == {"absent", "None", "int", "bool", "float", "str", "list"}

Players == {"A", "B", "C"}

WellTyped ==
    [f \in Fields |->
        CASE f = "guild_id" -> "int"
          [] f = "timestamp" -> "float"
          [] f = "is_suicide" -> "bool"
          [] OTHER -> "str"]

KillEvent(g, k, v, s) ==
    [ty |-> WellTyped, guild_id |-> g, killer |-> k, victim |-> v,
     is_suicide |-> s]

\* the event e with the value under key f replaced by one of type t
WithField(e, f, t) == [e EXCEPT !.ty[f] = t]

\* kill_event.get(field): None for a missing key
DictGet(e, f) == IF e.ty[f] = "absent" THEN "None" ELSE e.ty[f]

\* kill_event[key]: KeyError for a missing key
DictItem(e, f) == IF e.ty[f] = "absent" THEN "KeyError" ELSE e.ty[f]

\* isinstance(x, int): bool is a subclass of int
IsInstanceInt(t) == t \in {"int", "bool"}

\* isinstance(x, int) in the place of isinstance(x, (int, float))
IsInstanceNumberNoFloat(t) == t \in {"int", "bool"}

\* isinstance(x, (int, float))
IsInstanceNumber(t) == t \in {"int", "bool", "float"}

IsInstanceBool(t) == t = "bool"

\* isinstance(x, str): "str" is a string of one character or more, "empty"
\* the string ''
IsInstanceStr(t) == t \in {"str", "empty"}

StrKeys == <<"killer", "victim", "weapon", "server_id">>

Min(S) == CHOOSE x \in S : \A y \in S : x <= y

\* all(isinstance(kill_event[key], str) for key in [...]) stops at the first
\* key that is missing (KeyError) or not a string (False)
AllStrings(e) ==
    LET bad == {i \in 1..Len(StrKeys) : ~IsInstanceStr(DictItem(e, StrKeys[i]))}
    IN  IF bad = {} THEN "True"
        ELSE IF DictItem(e, StrKeys[Min(bad)]) = "KeyError" THEN "KeyError"
        ELSE "False"

\* validate_kill_event without the presence check of line 45
ValidateNoPresenceCheck(e) ==
    IF DictItem(e, "guild_id") = "KeyError" THEN "KeyError"
    ELSE IF ~IsInstanceInt(DictItem(e, "guild_id")) THEN "False"
    ELSE IF AllStrings(e) # "True" THEN AllStrings(e)
    ELSE IF DictItem(e, "timestamp") = "KeyError" THEN "KeyError"
    ELSE IF ~IsInstanceNumber(DictItem(e, "timestamp")) THEN "False"
    ELSE IF DictItem(e, "is_suicide") = "KeyError" THEN "KeyError"
    ELSE IF ~IsInstanceBool(DictItem(e, "is_suicide")) THEN "False"
    ELSE "True"

\* validate_kill_event: "True", "False" or the exception it raises
validate_kill_event(e) ==
    IF ~(\A f \in Fields : DictGet(e, f) # "None") THEN "False"
    ELSE IF DictItem(e, "guild_id") = "KeyError" THEN "KeyError"
    ELSE IF ~IsInstanceInt(DictItem(e, "guild_id")) THEN "False"
    ELSE IF AllStrings(e) # "True" THEN AllStrings(e)
    ELSE IF DictItem(e, "timestamp") = "KeyError" THEN "KeyError"
    ELSE IF ~IsInstanceNumber(DictItem(e, "timestamp")) THEN "False"
    ELSE IF DictItem(e, "is_suicide") = "KeyError" THEN "KeyError"
    ELSE IF ~IsInstanceBool(DictItem(e, "is_suicide")) THEN "False"
    ELSE "True"

(***************************************************************************)
(* is_flood: the killer's window after pruning and appending the current   *)
(* time, and the verdict.                                                  *)
(***************************************************************************)
\* is_flood without the clean-up of line 72
PrunedWindowKeepAll(w, t) == w

\* the clean-up of line 72 with now - t < self.time_window
PrunedWindowStrict(w, t) == SelectSeq(w, LAMBDA x : t - x < time_window)

PrunedWindow(w, t) == SelectSeq(w, LAMBDA x : t - x <= time_window)

\* is_flood recording the current time only when the event is not flagged
FloodWindowSkipFlagged(w, t) ==
    IF Len(PrunedWindow(w, t)) >= flood_threshold THEN PrunedWindow(w, t)
    ELSE Append(PrunedWindow(w, t), t)

FloodWindow(w, t) == Append(PrunedWindow(w, t), t)

\* is_flood with the comparison kill_count >= flood_threshold
IsFloodingAtThreshold(w, t) == Len(FloodWindow(w, t)) >= flood_threshold

IsFlooding(w, t) == Len(FloodWindow(w, t)) > flood_threshold

(***************************************************************************)
(* is_premium: the primary provider when it has the capability, else the   *)
(* fallback provider, else False; an exception of the provider is False.   *)
(* resp is the provider's behaviour: "ok" (it answers) or "raise".         *)
(***************************************************************************)
PremiumProvider ==
    IF has_v2 THEN "premium_manager_v2"
    ELSE IF db_present THEN "db_manager"
    ELSE "none"

\* is_premium without the gate: every guild counts as entitled
IsPremiumAlways(g, resp) == TRUE

\* is_premium that asks the fallback provider after the primary one raised
IsPremiumFallbackOnRaise(g, resp) ==
    IF PremiumProvider = "none" THEN FALSE
    ELSE IF resp = "raise" THEN has_v2 /\ db_present /\ g \in premium_guilds
    ELSE g \in premium_guilds

is_premium(g, resp) ==
    IF PremiumProvider = "none" THEN FALSE
    ELSE IF resp = "raise" THEN FALSE
    ELSE g \in premium_guilds

(***************************************************************************)
(* Persisted player statistics (db_manager, modelled from the              *)
(* specification): get_player_stats answers None for a player without a    *)
(* record; update_player_stats stores the three counters it is given.      *)
(***************************************************************************)
NoRecord == [exists |-> FALSE, kills |-> 0, deaths |-> 0, suicides |-> 0]

DbGetPlayerStats(p) == stats[p]

DbUpdatePlayerStats(st, p, k, d, s) ==
    [st EXCEPT ![p] = [exists |-> TRUE, kills |-> k, deaths |-> d,
                       suicides |-> s]]

\* "if not killer_stats: killer_stats = {'kills': 0, 'deaths': 0, 'suicides': 0}"
OrZero(r) == IF r.exists THEN r ELSE NoRecord

(***************************************************************************)
(* Per-event units (process_single_kill_event) and flush invocations       *)
(* (process_kill_events).  A unit is at the await named by its pc; ks and  *)
(* vs are its killer_stats and victim_stats.  The units of one gather are  *)
(* a bag: units with the same event at the same await with the same        *)
(* snapshots are interchangeable.                                          *)
(***************************************************************************)
Slots == 1..MaxFlushers

\* history value of a step that no property looks at
Step == [op |-> "step"]

NotSolo == [active |-> FALSE, pre |-> [p \in Players |-> NoRecord]]

NewUnit(e) == [ev |-> e, pc |-> "premium", ks |-> NoRecord, vs |-> NoRecord]

RECURSIVE BatchUnits(_)
BatchUnits(batch) ==
    IF batch = <<>> THEN EmptyBag
    ELSE SetToBag({NewUnit(Head(batch))}) (+) BatchUnits(Tail(batch))

FreeFlusher ==
    [pc |-> "free", kind |-> "none", units |-> EmptyBag, miscount |-> 0]

FreeSlots == {s \in Slots : flushers[s].pc = "free"}

InFlight == {s \in Slots : flushers[s].units # EmptyBag}

\* the slice with the bound 21: the 21st event is dispatched and stays
FirstBatchOffByOne(buf) ==
    SubSeq(buf, 1, IF Len(buf) < batch_size + 1 THEN Len(buf) ELSE batch_size + 1)

\* batch = self.kill_event_buffer[:20]
FirstBatch(buf) ==
    SubSeq(buf, 1, IF Len(buf) < batch_size THEN Len(buf) ELSE batch_size)

\* self.kill_event_buffer = self.kill_event_buffer[20:]
RestBuffer(buf) == SubSeq(buf, batch_size + 1, Len(buf))

\* the guards of process_kill_events without the empty-buffer return of
\* lines 104-106
FlushProceedsNoEmptyCheck(buf) == processor_enabled /\ bot_ready /\ db_present

\* the guards of process_kill_events without the readiness return of
\* lines 100-102
FlushProceedsNoReadyCheck(buf) == processor_enabled /\ buf # <<>>

\* the guards of process_kill_events before its loop (lines 97-106)
FlushProceeds(buf) ==
    processor_enabled /\ bot_ready /\ db_present /\ buf # <<>>

\* one pass of the loop head: slice a batch, dispatch its units, await gather
StartGather(f, buf) ==
    [f EXCEPT !.pc = "gather",
              !.units = BatchUnits(FirstBatch(buf)),
              !.miscount = @ + Len(FirstBatch(buf))]

\* history: a unit dispatched while nothing else is in flight, and the
\* statistics at that moment
SoloAfterDispatch(buf) ==
    IF InFlight = {} /\ Len(FirstBatch(buf)) = 1
    THEN [active |-> TRUE, pre |-> stats]
    ELSE NotSolo

(***************************************************************************)
(* The counters process_single_kill_event hands to update_player_stats.    *)
(***************************************************************************)
\* the killer's counters of a regular kill, with deaths incremented too
KillerCountersAlsoDeath(ks) ==
    [kills |-> OrZero(ks).kills + 1, deaths |-> OrZero(ks).deaths + 1,
     suicides |-> OrZero(ks).suicides]

KillerCounters(ks) ==
    [kills |-> OrZero(ks).kills + 1, deaths |-> OrZero(ks).deaths,
     suicides |-> OrZero(ks).suicides]

VictimCounters(vs) ==
    [kills |-> OrZero(vs).kills, deaths |-> OrZero(vs).deaths + 1,
     suicides |-> OrZero(vs).suicides]

\* the killer's counters of a suicide, counted as a death as well
SuicideCountersAlsoDeath(ks) ==
    [kills |-> OrZero(ks).kills, deaths |-> OrZero(ks).deaths + 1,
     suicides |-> OrZero(ks).suicides + 1]

SuicideCounters(ks) ==
    [kills |-> OrZero(ks).kills, deaths |-> OrZero(ks).deaths,
     suicides |-> OrZero(ks).suicides + 1]

Write(st, p, c) == DbUpdatePlayerStats(st, p, c.kills, c.deaths, c.suicides)

(***************************************************************************)
(* add_kill_event(e).  The call runs to its return, or, when the buffer    *)
(* is full and the flush proceeds, to the gather of the first sub-batch.   *)
(***************************************************************************)
\* the occupancy test of line 92 with > in place of >=
BufferFullStrict(buf) == Len(buf) > buffer_size

BufferFull(buf) == Len(buf) >= buffer_size

AddKillEvent(e) ==
    LET v == validate_kill_event(e)
        buf == Append(kill_event_buffer, e)
        flush == BufferFull(buf) /\ FlushProceeds(buf)
        s == Min(FreeSlots)
    IN  /\ UNCHANGED <<processor_enabled, processor_running, recent_kill_times,
                       envVars, stats, now, lbVars, checks>>
        /\ IF ~processor_enabled \/ v # "True"
           THEN /\ UNCHANGED <<kill_event_buffer, flushers, solo, added>>
                /\ last' = [op |-> "add", ev |-> e,
                            outcome |-> IF ~processor_enabled THEN "disabled"
                                        ELSE IF v = "False" THEN "rejected"
                                        ELSE "raised",
                            before |-> Len(kill_event_buffer),
                            occ |-> Len(kill_event_buffer),
                            after |-> Len(kill_event_buffer),
                            flush |-> FALSE]
           ELSE /\ flush => FreeSlots # {}
                /\ added' = added + 1
                /\ kill_event_buffer' = IF flush THEN RestBuffer(buf) ELSE buf
                /\ flushers' =
                       IF flush
                       THEN [flushers EXCEPT
                                ![s] = StartGather([FreeFlusher EXCEPT !.kind = "add"], buf)]
                       ELSE flushers
                /\ solo' = IF flush THEN SoloAfterDispatch(buf) ELSE solo
                /\ last' = [op |-> "add", ev |-> e, outcome |-> "appended",
                            before |-> Len(kill_event_buffer),
                            occ |-> Len(buf),
                            after |-> Len(kill_event_buffer'),
                            flush |-> flush]

(***************************************************************************)
(* on_ready: the listener of the ready signal, run once the bot is ready.  *)
(* The first run creates the task that runs process_kill_events.           *)
(***************************************************************************)
\* on_ready without the test of processor_running: every ready signal
\* creates a task
OnReadyNoFlag ==
    /\ bot_ready
    /\ FreeSlots # {}
    /\ flushers' = [flushers EXCEPT ![Min(FreeSlots)] =
                       [FreeFlusher EXCEPT !.pc = "created", !.kind = "ready"]]
    /\ processor_running' = TRUE
    /\ last' = [op |-> "on_ready", started |-> TRUE]
    /\ UNCHANGED <<processor_enabled, kill_event_buffer, recent_kill_times,
                   envVars, stats, now, lbVars, checks, solo, added>>

OnReady ==
    /\ bot_ready
    /\ IF ~processor_running
       THEN /\ FreeSlots # {}
            /\ flushers' = [flushers EXCEPT ![Min(FreeSlots)] =
                               [FreeFlusher EXCEPT !.pc = "created", !.kind = "ready"]]
            /\ processor_running' = TRUE
       ELSE UNCHANGED <<flushers, processor_running>>
    /\ last' = [op |-> "on_ready", started |-> ~processor_running]
    /\ UNCHANGED <<processor_enabled, kill_event_buffer, recent_kill_times,
                   envVars, stats, now, lbVars, checks, solo, added>>

(***************************************************************************)
(* process_kill_events from its entry to its return or its first gather,   *)
(* run by the flusher in slot s.  reported is flush_buffer's buffer_size    *)
(* (0 for the other callers); miscount is the number of events the         *)
(* invocation has dispatched minus reported (history).                     *)
(***************************************************************************)
ProcessKillEvents(s, reported) ==
    IF FlushProceeds(kill_event_buffer)
    THEN /\ kill_event_buffer' = RestBuffer(kill_event_buffer)
         /\ flushers' = [flushers EXCEPT ![s] =
                StartGather([flushers[s] EXCEPT !.miscount = 0 - reported],
                            kill_event_buffer)]
         /\ solo' = SoloAfterDispatch(kill_event_buffer)
         /\ last' = Step
    ELSE /\ flushers' = [flushers EXCEPT ![s] = FreeFlusher]
         /\ last' = [op |-> "flush_end", kind |-> flushers[s].kind,
                     miscount |-> 0 - reported]
         /\ UNCHANGED <<kill_event_buffer, solo>>

\* the task created by on_ready starts running
ReadyTaskRun(s) ==
    /\ flushers[s].pc = "created"
    /\ ProcessKillEvents(s, 0)
    /\ UNCHANGED <<processor_enabled, processor_running, recent_kill_times,
                   envVars, stats, now, lbVars, checks, added>>

\* flush_buffer is invoked: await ctx.defer
FlushBufferInvoke ==
    /\ FreeSlots # {}
    /\ flushers' = [flushers EXCEPT ![Min(FreeSlots)] =
                       [FreeFlusher EXCEPT !.pc = "defer", !.kind = "manual"]]
    /\ last' = Step
    /\ UNCHANGED <<processor_enabled, processor_running, kill_event_buffer,
                   recent_kill_times, envVars, stats, now, lbVars, checks, solo, added>>

\* flush_buffer after the deferral: buffer_size = len(buffer), then the flush
FlushBufferRun(s) ==
    /\ flushers[s].pc = "defer"
    /\ ProcessKillEvents(s, Len(kill_event_buffer))
    /\ UNCHANGED <<processor_enabled, processor_running, recent_kill_times,
                   envVars, stats, now, lbVars, checks, added>>

\* the loop of process_kill_events goes round without awaiting its gather:
\* the next sub-batch is dispatched while units of the last one are running
GatherDoneEarly(s) ==
    /\ flushers[s].pc = "gather"
    /\ IF kill_event_buffer # <<>>
       THEN /\ kill_event_buffer' = RestBuffer(kill_event_buffer)
            /\ flushers' = [flushers EXCEPT ![s] =
                   [StartGather(flushers[s], kill_event_buffer) EXCEPT
                       !.units = @ (+) flushers[s].units]]
            /\ solo' = SoloAfterDispatch(kill_event_buffer)
            /\ last' = Step
       ELSE /\ BagToSet(flushers[s].units) = {}
            /\ flushers' = [flushers EXCEPT ![s] = FreeFlusher]
            /\ last' = [op |-> "flush_end", kind |-> flushers[s].kind,
                        miscount |-> flushers[s].miscount]
            /\ UNCHANGED <<kill_event_buffer, solo>>
    /\ UNCHANGED <<processor_enabled, processor_running, recent_kill_times,
                   envVars, stats, now, lbVars, checks, added>>

\* gather has returned: the loop test "while self.kill_event_buffer"
GatherDone(s) ==
    /\ flushers[s].pc = "gather"
    /\ BagToSet(flushers[s].units) = {}
    /\ IF kill_event_buffer # <<>>
       THEN /\ kill_event_buffer' = RestBuffer(kill_event_buffer)
            /\ flushers' = [flushers EXCEPT ![s] =
                               StartGather(flushers[s], kill_event_buffer)]
            /\ solo' = SoloAfterDispatch(kill_event_buffer)
            /\ last' = Step
       ELSE /\ flushers' = [flushers EXCEPT ![s] = FreeFlusher]
            /\ last' = [op |-> "flush_end", kind |-> flushers[s].kind,
                        miscount |-> flushers[s].miscount]
            /\ UNCHANGED <<kill_event_buffer, solo>>
    /\ UNCHANGED <<processor_enabled, processor_running, recent_kill_times,
                   envVars, stats, now, lbVars, checks, added>>

(***************************************************************************)
(* process_single_kill_event, one action per await.  u is a unit of the    *)
(* gather of slot s; resp is what the awaited call does: "ok" or "raise".  *)
(***************************************************************************)
Responses == {"ok", "raise"}

UnitsAt(s, pcs) == {u \in BagToSet(flushers[s].units) : u.pc \in pcs}

\* the unit moves on to its next await
Continue(s, u, u2) ==
    /\ flushers' = [flushers EXCEPT
           ![s].units = (@ (-) SetToBag({u})) (+) SetToBag({u2})]
    /\ last' = Step

\* the unit returns, and a persistence failure is re-raised out of it: gather
\* raises into process_kill_events, which logs at line 119 and returns
FinishPropagates(s, u, outcome) ==
    /\ flushers' = [flushers EXCEPT ![s] =
           IF outcome = "db_error" THEN FreeFlusher
           ELSE [@ EXCEPT !.units = @ (-) SetToBag({u})]]
    /\ last' = [op |-> "unit_done", ev |-> u.ev, outcome |-> outcome,
                solo |-> solo.active, pre |-> solo.pre]

\* the unit returns (every exception is caught and logged inside it)
Finish(s, u, outcome) ==
    /\ flushers' = [flushers EXCEPT ![s].units = @ (-) SetToBag({u})]
    /\ last' = [op |-> "unit_done", ev |-> u.ev, outcome |-> outcome,
                solo |-> solo.active, pre |-> solo.pre]

\* lines 139-148: the premium gate, the flood gate, the call of record_kill_event
UnitPremium(s, u, resp) ==
    LET k == u.ev.killer
        w == recent_kill_times[k]
    IN  /\ u \in UnitsAt(s, {"premium"})
        /\ IF ~is_premium(u.ev.guild_id, resp)
           THEN /\ Finish(s, u, "not_premium")
                /\ UNCHANGED recent_kill_times
           ELSE /\ recent_kill_times' = [recent_kill_times EXCEPT ![k] = FloodWindow(w, now)]
                /\ IF IsFlooding(w, now) THEN Finish(s, u, "flood")
                   ELSE IF ~db_present THEN Finish(s, u, "db_error")
                   ELSE Continue(s, u, [u EXCEPT !.pc = "record"])
        /\ UNCHANGED <<processor_enabled, processor_running, kill_event_buffer,
                       envVars, stats, now, lbVars, checks, solo, added>>

\* an awaited persistence call raises (or the manager is gone): lines 185-188
UnitDbError(s, u) ==
    /\ u \in UnitsAt(s, {"record", "get_killer", "get_victim", "upd_suicide",
                         "upd_killer", "upd_victim"})
    /\ Finish(s, u, "db_error")
    /\ UNCHANGED <<processor_enabled, processor_running, kill_event_buffer,
                   recent_kill_times, envVars, stats, now, lbVars, checks, solo, added>>

\* lines 148-157: record_kill_event and the two get_player_stats answer
UnitRead(s, u) ==
    /\ u \in UnitsAt(s, {"record", "get_killer", "get_victim"})
    /\ db_present
    /\ Continue(s, u,
          CASE u.pc = "record" -> [u EXCEPT !.pc = "get_killer"]
            [] u.pc = "get_killer" ->
                  [u EXCEPT !.pc = "get_victim",
                            !.ks = DbGetPlayerStats(u.ev.killer)]
            [] u.pc = "get_victim" ->
                  [u EXCEPT !.pc = IF u.ev.is_suicide THEN "upd_suicide"
                                   ELSE "upd_killer",
                            !.vs = DbGetPlayerStats(u.ev.victim)])
    /\ UNCHANGED <<processor_enabled, processor_running, kill_event_buffer,
                   recent_kill_times, envVars, stats, now, lbVars, checks, solo, added>>

\* an update_player_stats call of the killer that increments the stored
\* counters in place instead of writing the snapshot read at line 150
UnitWriteFresh(s, u) ==
    /\ u \in UnitsAt(s, {"upd_suicide", "upd_killer", "upd_victim"})
    /\ db_present
    /\ CASE u.pc = "upd_suicide" ->
              /\ stats' = Write(stats, u.ev.killer, SuicideCounters(u.ks))
              /\ Finish(s, u, "applied")
         [] u.pc = "upd_killer" ->
              /\ stats' = Write(stats, u.ev.killer,
                                KillerCounters(DbGetPlayerStats(u.ev.killer)))
              /\ Continue(s, u, [u EXCEPT !.pc = "upd_victim"])
         [] u.pc = "upd_victim" ->
              /\ stats' = Write(stats, u.ev.victim, VictimCounters(u.vs))
              /\ Finish(s, u, "applied")
    /\ UNCHANGED <<processor_enabled, processor_running, kill_event_buffer,
                   recent_kill_times, envVars, now, lbVars, checks, solo, added>>

\* lines 160-181: an update_player_stats call is answered
UnitWrite(s, u) ==
    /\ u \in UnitsAt(s, {"upd_suicide", "upd_killer", "upd_victim"})
    /\ db_present
    /\ CASE u.pc = "upd_suicide" ->
              /\ stats' = Write(stats, u.ev.killer, SuicideCounters(u.ks))
              /\ Finish(s, u, "applied")
         [] u.pc = "upd_killer" ->
              /\ stats' = Write(stats, u.ev.killer, KillerCounters(u.ks))
              /\ Continue(s, u, [u EXCEPT !.pc = "upd_victim"])
         [] u.pc = "upd_victim" ->
              /\ stats' = Write(stats, u.ev.victim, VictimCounters(u.vs))
              /\ Finish(s, u, "applied")
    /\ UNCHANGED <<processor_enabled, processor_running, kill_event_buffer,
                   recent_kill_times, envVars, now, lbVars, checks, solo, added>>

(***************************************************************************)
(* toggle_processor and the environment.                                   *)
(***************************************************************************)
ToggleProcessor ==
    /\ processor_enabled' = ~processor_enabled
    /\ last' = Step
    /\ UNCHANGED <<processor_running, kill_event_buffer, recent_kill_times,
                   envVars, stats, now, flushers, lbVars, checks, solo, added>>

\* the persistence manager goes away or comes back
SetDb(b) ==
    /\ db_present # b
    /\ db_present' = b
    /\ last' = Step
    /\ UNCHANGED <<processor_enabled, processor_running, kill_event_buffer,
                   recent_kill_times, bot_ready, has_v2, premium_guilds, stats,
                   now, flushers, lbVars, checks, solo, added>>

\* the bot becomes ready: is_ready() answers true and wait_until_ready
\* returns
BotReady ==
    /\ ~bot_ready
    /\ bot_ready' = TRUE
    /\ last' = Step
    /\ UNCHANGED <<processor_enabled, processor_running, kill_event_buffer,
                   recent_kill_times, db_present, has_v2, premium_guilds, stats,
                   now, flushers, lbVars, checks, solo, added>>

\* the entitlement of guild g is granted or withdrawn
SetPremium(g) ==
    /\ premium_guilds' = IF g \in premium_guilds THEN premium_guilds \ {g}
                          ELSE premium_guilds \cup {g}
    /\ last' = Step
    /\ UNCHANGED <<processor_enabled, processor_running, kill_event_buffer,
                   recent_kill_times, bot_ready, db_present, has_v2, stats, now,
                   flushers, lbVars, checks, solo, added>>

\* the clock advances by d seconds
Tick(d) ==
    /\ now' = now + d
    /\ last' = Step
    /\ UNCHANGED <<processor_enabled, processor_running, kill_event_buffer,
                   recent_kill_times, envVars, stats, flushers, lbVars, checks, solo,
                   added>>

(***************************************************************************)
(* Leaderboard identities: a task id stands for one (guild_id, channel_id, *)
(* leaderboard_type, server_id) tuple.  The persisted configuration of a   *)
(* tuple (db_manager, modelled from the specification): how many           *)
(* configurations add_automated_leaderboard has stored for it and whether  *)
(* a message id is stored with them.                                       *)
(***************************************************************************)
TaskIds == {"T1", "T2"}

\* the keys of a stored configuration that cog_load reads, with the _id of
\* its guild document
ConfigFields ==
    {"guild_id", "channel_id", "leaderboard_type", "server_id",
     "update_interval"}

\* the kinds of value cog_load tells apart: a missing key, None, a non-zero
\* int, 0, a non-empty str, "", True, a non-empty list
ConfigTags == {"absent", "None", "int", "zero", "str", "empty", "true", "list"}

\* the fields as create_leaderboard stores them
WellFormedConfig ==
    [f \in ConfigFields |->
        IF f \in {"leaderboard_type", "server_id"} THEN "str" ELSE "int"]

\* config.get(key) without the defaults of lines 259-260
ConfigGetNoDefault(ty, f) == IF ty[f] = "absent" THEN "None" ELSE ty[f]

\* guild.get('_id'), config.get('channel_id'), config.get('leaderboard_type'),
\* config.get('server_id', 'default'), config.get('update_interval', 24)
ConfigGet(ty, f) ==
    IF ty[f] # "absent" THEN ty[f]
    ELSE IF f = "server_id" THEN "str"
    ELSE IF f = "update_interval" THEN "int"
    ELSE "None"

\* bool(x)
Truthy(t) == t \in {"int", "str", "true", "list"}

\* isinstance(x, int) for the values of a configuration
IsInstanceIntConfig(t) == t \in {"int", "zero", "true"}

\* lines 250, 263 and 268 of cog_load
LoadChecks(ty) ==
    /\ Truthy(ConfigGet(ty, "guild_id"))
    /\ \A f \in ConfigFields \ {"guild_id"} : Truthy(ConfigGet(ty, f))
    /\ IsInstanceIntConfig(ConfigGet(ty, "guild_id"))
    /\ IsInstanceIntConfig(ConfigGet(ty, "channel_id"))

\* lines 250-275: the checks pass and "task_id not in self.running_tasks"
\* can hash the tuple (a list in it raises TypeError, caught at line 288)
ConfigStarts(ty) ==
    /\ LoadChecks(ty)
    /\ \A f \in ConfigFields \ {"update_interval"} : ConfigGet(ty, f) # "list"

NoConfig == [count |-> 0, message_id |-> FALSE, ty |-> WellFormedConfig]

NoConfigs == [id \in TaskIds |-> NoConfig]

(***************************************************************************)
(* The state after construction (__init__ of both cogs); the environment   *)
(* is given by the parameters.                                             *)
(***************************************************************************)
InitWith(db, v2, prem, cfgs) ==
    /\ processor_enabled = TRUE
    /\ processor_running = FALSE
    /\ kill_event_buffer = <<>>
    /\ recent_kill_times = [p \in Players |-> <<>>]
    /\ bot_ready = FALSE
    /\ db_present = db
    /\ has_v2 = v2
    /\ premium_guilds = prem
    /\ stats = [p \in Players |-> NoRecord]
    /\ now = 0
    /\ flushers = [s \in Slots |-> FreeFlusher]
    /\ running_tasks = {}
    /\ lb_tasks = EmptyBag
    /\ lb_configs = cfgs
    /\ lb_cmds = EmptyBag
    /\ cog_loaded = FALSE
    /\ checks = <<>>
    /\ solo = NotSolo
    /\ added = 0
    /\ last = [op |-> "init"]

(***************************************************************************)
(* Statistics specification: events of a premium guild, every per-event    *)
(* unit interleaved at its awaits.                                         *)
(***************************************************************************)
StatsEvents ==
    {KillEvent(1, "A", "B", FALSE), KillEvent(1, "B", "A", FALSE),
     KillEvent(1, "A", "A", TRUE), KillEvent(1, "A", "B", TRUE),
     KillEvent(1, "A", "A", FALSE)}

InitStats == InitWith(TRUE, TRUE, {1}, NoConfigs)

NextStats ==
    \/ \E e \in StatsEvents : added < MaxEvents /\ AddKillEvent(e)
    \/ BotReady
    \/ OnReady
    \/ \E s \in Slots : ReadyTaskRun(s)
    \/ FlushBufferInvoke
    \/ \E s \in Slots : FlushBufferRun(s)
    \/ \E s \in Slots : GatherDone(s)
    \/ \E s \in Slots : \E u \in BagToSet(flushers[s].units) :
          \E resp \in Responses : UnitPremium(s, u, resp)
    \/ \E s \in Slots : \E u \in BagToSet(flushers[s].units) : UnitDbError(s, u)
    \/ \E s \in Slots : \E u \in BagToSet(flushers[s].units) : UnitRead(s, u)
    \/ \E s \in Slots : \E u \in BagToSet(flushers[s].units) : UnitWrite(s, u)

SpecStats == InitStats /\ [][NextStats]_vars

(***************************************************************************)
(* Properties of the statistics specification.                             *)
(***************************************************************************)
\* a counter of player p in the statistics st, zero without a record
Counter(st, p, c) == IF st[p].exists THEN st[p][c] ELSE 0

CounterNames == {"kills", "deaths", "suicides"}

\* the unit that has just returned ran with no other unit in flight, passed
\* both gates and had every persistence call answered
AppliedAlone ==
    /\ last.op = "unit_done"
    /\ last.solo
    /\ last.outcome = "applied"
    /\ last.ev.guild_id \in premium_guilds

OthersUnchanged(ps) ==
    \A p \in Players \ ps : \A c \in CounterNames :
        Counter(stats, p, c) = Counter(last.pre, p, c)

\* C2: one non-suicide event with killer A and victim B (A # B) of a premium
\* guild, applied with no other event in flight and no persistence failure,
\* adds 1 to A.kills and 1 to B.deaths and changes no other counter of any
\* player; a player without a record counts as zero.
C2_RegularKill ==
    (AppliedAlone /\ ~last.ev.is_suicide /\ last.ev.killer # last.ev.victim) =>
        LET a == last.ev.killer
            b == last.ev.victim
        IN  /\ Counter(stats, a, "kills") = Counter(last.pre, a, "kills") + 1
            /\ Counter(stats, a, "deaths") = Counter(last.pre, a, "deaths")
            /\ Counter(stats, a, "suicides") = Counter(last.pre, a, "suicides")
            /\ Counter(stats, b, "deaths") = Counter(last.pre, b, "deaths") + 1
            /\ Counter(stats, b, "kills") = Counter(last.pre, b, "kills")
            /\ Counter(stats, b, "suicides") = Counter(last.pre, b, "suicides")
            /\ OthersUnchanged({a, b})

\* a second kill of A on B, applied alone to counters the first one left
C2_Witness ==
    /\ AppliedAlone /\ ~last.ev.is_suicide
    /\ last.ev.killer = "A" /\ last.ev.victim = "B"
    /\ last.pre["A"].exists /\ last.pre["A"].kills = 1
    /\ stats["A"].kills = 2 /\ stats["B"].deaths = 2

\* C3 as stated: one suicide event with killer A, applied alone, adds 1 to
\* A.suicides and leaves A.kills, A.deaths and all three counters of the
\* named victim unchanged.
C3_AsStated ==
    (AppliedAlone /\ last.ev.is_suicide) =>
        LET a == last.ev.killer
            v == last.ev.victim
        IN  /\ Counter(stats, a, "suicides") = Counter(last.pre, a, "suicides") + 1
            /\ Counter(stats, a, "kills") = Counter(last.pre, a, "kills")
            /\ Counter(stats, a, "deaths") = Counter(last.pre, a, "deaths")
            /\ \A c \in CounterNames :
                  Counter(stats, v, c) = Counter(last.pre, v, c)

\* C3 amended: one suicide event with killer A, applied alone, adds 1 to
\* A.suicides and leaves A.kills and A.deaths unchanged; the three counters
\* of the named victim are unchanged when the victim is a player other than
\* A, and so are those of every third player.
C3_Suicide ==
    (AppliedAlone /\ last.ev.is_suicide) =>
        LET a == last.ev.killer
        IN  /\ Counter(stats, a, "suicides") = Counter(last.pre, a, "suicides") + 1
            /\ Counter(stats, a, "kills") = Counter(last.pre, a, "kills")
            /\ Counter(stats, a, "deaths") = Counter(last.pre, a, "deaths")
            /\ OthersUnchanged({a})

\* a suicide that names another player as victim, applied after a kill
C3_Witness ==
    /\ AppliedAlone /\ last.ev.is_suicide
    /\ last.ev.killer = "A" /\ last.ev.victim = "B"
    /\ last.pre["A"].kills = 1 /\ last.pre["B"].deaths = 1
    /\ stats["A"].suicides = 1

\* C6: the persisted kills, deaths and suicides of every player never
\* decrease from one state to the next.
C6_Monotonic ==
    [][\A p \in Players : \A c \in CounterNames :
          Counter(stats', p, c) >= Counter(stats, p, c)]_vars

(***************************************************************************)
(* Ingestion specification: add_kill_event is handed the well-formed event *)
(* and every event that differs from it in the value of one key; the       *)
(* processor is toggled, the ready signal starts the flush task and the    *)
(* persistence manager comes and goes.                                     *)
(***************************************************************************)
\* add_kill_event calls that append, in the ingestion specification
MaxIngest == 2

PlainEvent == KillEvent(2, "A", "B", FALSE)

IngestEvents == {WithField(PlainEvent, f, t) : f \in Fields, t \in Tags}

InitIngest == InitWith(TRUE, TRUE, {1}, NoConfigs)

NextIngest ==
    \/ \E e \in IngestEvents :
          /\ added < MaxIngest \/ validate_kill_event(e) # "True"
          /\ AddKillEvent(e)
    \/ ToggleProcessor
    \/ BotReady
    \/ OnReady
    \/ \E b \in BOOLEAN : SetDb(b)
    \/ \E s \in Slots : ReadyTaskRun(s)
    \/ \E s \in Slots : GatherDone(s)
    \/ \E s \in Slots : \E u \in BagToSet(flushers[s].units) :
          \E resp \in Responses : UnitPremium(s, u, resp)

SpecIngest == InitIngest /\ [][NextIngest]_vars

\* the types the specification gives the fields; a Python bool is an int
FieldTypes(f) ==
    CASE f = "guild_id" -> {"int", "bool"}
      [] f = "timestamp" -> {"int", "bool", "float"}
      [] f = "is_suicide" -> {"bool"}
      [] OTHER -> {"str"}

\* a required field is missing or null, or a field has the wrong type
Malformed(e) == \E f \in Fields : e.ty[f] \notin FieldTypes(f)

InitBuf == InitWith(TRUE, TRUE, {1}, NoConfigs)

NextBuf ==
    \/ added < MaxAdds /\ AddKillEvent(PlainEvent)
    \/ \E b \in BOOLEAN : SetDb(b)
    \/ BotReady
    \/ OnReady
    \/ \E s \in Slots : ReadyTaskRun(s)
    \/ \E s \in Slots : GatherDone(s)
    \/ \E s \in Slots : \E u \in BagToSet(flushers[s].units) :
          \E resp \in Responses : UnitPremium(s, u, resp)

SpecBuf == InitBuf /\ [][NextBuf]_vars

\* C10: when add_kill_event appends a valid event that brings the occupancy
\* to buffer_size while the processor is enabled, the bot is ready and the
\* persistence manager is present, a flush starts within that call: the
\* first sub-batch has left the buffer and its units are dispatched.
C10_FlushOnFull ==
    (/\ last.op = "add" /\ last.outcome = "appended"
     /\ last.occ = buffer_size
     /\ processor_enabled /\ bot_ready /\ db_present) =>
        /\ last.flush
        /\ Len(kill_event_buffer) = buffer_size - batch_size
        /\ \E s \in Slots :
              /\ flushers[s].kind = "add" /\ flushers[s].pc = "gather"
              /\ BagCardinality(flushers[s].units) = batch_size

\* the 50th event arrives with the bot ready and the manager present
C10_Witness ==
    /\ last.op = "add" /\ last.outcome = "appended"
    /\ last.occ = buffer_size /\ last.before = buffer_size - 1
    /\ bot_ready /\ db_present /\ last.flush

(***************************************************************************)
(* Flood specification: is_flood is called for two killers while the       *)
(* clock advances; checks records every call (killer, time of the call,    *)
(* kill_count, verdict).                                                   *)
(***************************************************************************)
\* is_flood calls recorded
MaxChecks == 7
\* the clock stops here
MaxNow == 61

TickSteps == {30, 31}

Killers == {"A", "B"}

\* is_flood(k), lines 65-79
IsFlood(k) ==
    LET w == recent_kill_times[k]
    IN  /\ recent_kill_times' = [recent_kill_times EXCEPT ![k] = FloodWindow(w, now)]
        /\ checks' = Append(checks,
               [killer |-> k, at |-> now, size |-> Len(FloodWindow(w, now)),
                flooding |-> IsFlooding(w, now)])
        /\ last' = Step
        /\ UNCHANGED <<processor_enabled, processor_running, kill_event_buffer,
                       envVars, stats, now, flushers, lbVars, solo, added>>

InitFlood == InitWith(TRUE, TRUE, {1}, NoConfigs)

NextFlood ==
    \/ \E k \in Killers : Len(checks) < MaxChecks /\ IsFlood(k)
    \/ \E d \in TickSteps : now + d <= MaxNow /\ Tick(d)

SpecFlood == InitFlood /\ [][NextFlood]_vars

\* the calls recorded for killer k, in order
ChecksOf(k) == SelectSeq(checks, LAMBDA c : c.killer = k)

\* call i of h finds no timestamp to retain: the window is empty, or every
\* earlier call is more than time_window old
StartsEmpty(h, i) == i = 1 \/ h[i].at - h[i - 1].at > time_window

\* C4: for an actor whose flood window is empty, of six consecutive flood
\* checks that all fall within one 60-second window the first five return
\* not-flooding and the sixth returns flooding.
C4_SixthFlagged ==
    \A k \in Killers :
        LET h == ChecksOf(k)
        IN  \A i \in 1..Len(h) :
                (/\ StartsEmpty(h, i)
                 /\ i + flood_threshold <= Len(h)
                 /\ h[i + flood_threshold].at - h[i].at <= time_window) =>
                    /\ \A j \in i..(i + flood_threshold - 1) : ~h[j].flooding
                    /\ h[i + flood_threshold].flooding

\* six checks of A between time 0 and time 60, the sixth flagged
C4_Witness ==
    LET h == ChecksOf("A")
    IN  /\ Len(h) = 6
        /\ h[1].at = 0 /\ h[6].at = time_window
        /\ h[6].flooding /\ ~h[5].flooding

\* C5: if an actor was flagged as flooding and its next flood check happens
\* more than 60 seconds after the flagged one, that next check returns
\* not-flooding and leaves a window of size 1.
C5_NotFlaggedAfterWindow ==
    \A k \in Killers :
        LET h == ChecksOf(k)
        IN  \A i \in 1..(Len(h) - 1) :
                (h[i].flooding /\ h[i + 1].at - h[i].at > time_window) =>
                    /\ ~h[i + 1].flooding
                    /\ h[i + 1].size = 1
                    /\ (i + 1 = Len(h) => Len(recent_kill_times[k]) = 1)

\* A is flagged on its 6th event and checked again 61 seconds later
C5_Witness ==
    LET h == ChecksOf("A")
    IN  /\ Len(h) = 7
        /\ h[6].flooding /\ h[6].size = 6
        /\ h[7].at - h[6].at > time_window
        /\ ~h[7].flooding

(***************************************************************************)
(* AutomatedLeaderboard.  lb_tasks is the bag of run_leaderboard_task      *)
(* tasks that have not finished: id is the tuple, pc the await the task is *)
(* suspended at ("created": scheduled by create_task, not yet run), msg    *)
(* whether its local message is set, initial whether it was given an       *)
(* initial_message_id.  lb_cmds is the bag of command handlers and of the  *)
(* cog_load call that are suspended at an await.                           *)
(***************************************************************************)
\* run_leaderboard_task tasks alive at the same time
MaxTasks == 2
\* command handlers suspended at the same time
MaxCmds == 2
\* configurations stored for one tuple
MaxConfigs == 2

procVars ==
    <<processor_enabled, processor_running, kill_event_buffer,
      recent_kill_times, stats, now, flushers, checks, solo, added>>

NewTask(id, initial) ==
    [id |-> id, pc |-> "created", msg |-> FALSE, initial |-> initial]

TasksAt(pcs) == {t \in BagToSet(lb_tasks) : t.pc \in pcs}

LiveTasks(id) ==
    LET ts == {t \in BagToSet(lb_tasks) : t.id = id}
    IN  BagCardinality([t \in ts |-> CopiesIn(t, lb_tasks)])

Suspended == {"wait_ready", "fetch", "get_lb", "edit", "send", "save_id", "sleep"}

\* only the explicit discards before the early returns, no finally clause
DiscardsOnlyOnReturn(how) == how = "early_return"

\* whether the exit runs self.running_tasks.discard(task_id): the early
\* returns (lines 306, 312, 329, 368) and the finally clause (line 383) do;
\* a task cancelled before its first step never enters the try statement
Discards(how) == how # "never_started"

\* the task moves to its next await
TaskMoves(t, t2) ==
    /\ lb_tasks' = (lb_tasks (-) SetToBag({t})) (+) SetToBag({t2})
    /\ last' = Step
    /\ UNCHANGED <<running_tasks, lb_configs>>

\* the task ends
TaskExits(t, how) ==
    /\ lb_tasks' = lb_tasks (-) SetToBag({t})
    /\ running_tasks' = IF Discards(how) THEN running_tasks \ {t.id}
                        ELSE running_tasks
    /\ last' = [op |-> "task_exit", id |-> t.id, how |-> how]
    /\ UNCHANGED lb_configs

\* the head of the while loop (lines 327-332)
LoopHead(t, t2) ==
    IF ~db_present THEN TaskExits(t, "early_return")
    ELSE TaskMoves(t, [t2 EXCEPT !.pc = "get_lb"])

\* lines 303-318, after wait_until_ready; found: the guild and a text
\* channel are found
AfterReady(t, found) ==
    IF ~found THEN TaskExits(t, "early_return")
    ELSE IF t.initial THEN TaskMoves(t, [t EXCEPT !.pc = "fetch"])
    ELSE LoopHead(t, t)

\* the task runs for the first time
TaskStart(t, found) ==
    /\ t \in TasksAt({"created"})
    /\ IF ~bot_ready THEN TaskMoves(t, [t EXCEPT !.pc = "wait_ready"])
       ELSE AfterReady(t, found)
    /\ UNCHANGED <<procVars, envVars, lb_cmds, cog_loaded>>

\* wait_until_ready returns
TaskReady(t, found) ==
    /\ t \in TasksAt({"wait_ready"})
    /\ bot_ready
    /\ AfterReady(t, found)
    /\ UNCHANGED <<procVars, envVars, lb_cmds, cog_loaded>>

\* channel.fetch_message answers (lines 317-322)
TaskFetch(t, resp) ==
    /\ t \in TasksAt({"fetch"})
    /\ LoopHead(t, [t EXCEPT !.msg = (resp = "ok"), !.initial = FALSE])
    /\ UNCHANGED <<procVars, envVars, lb_cmds, cog_loaded>>

\* get_leaderboard answers and the embed is built (lines 332-350, 370-374);
\* resp: "embed", "no_embed" (EmbedFactory gives none) or "raise"
TaskGetLeaderboard(t, resp) ==
    /\ t \in TasksAt({"get_lb"})
    /\ TaskMoves(t, [t EXCEPT !.pc = IF resp # "embed" THEN "sleep"
                                     ELSE IF t.msg THEN "edit" ELSE "send"])
    /\ UNCHANGED <<procVars, envVars, lb_cmds, cog_loaded>>

\* message.edit answers (lines 351-360); resp: "ok", "NotFound" or "raise"
TaskEdit(t, resp) ==
    /\ t \in TasksAt({"edit"})
    /\ TaskMoves(t, IF resp = "NotFound" THEN [t EXCEPT !.msg = FALSE, !.pc = "send"]
                    ELSE [t EXCEPT !.pc = "sleep"])
    /\ UNCHANGED <<procVars, envVars, lb_cmds, cog_loaded>>

\* channel.send answers (lines 361-369)
TaskSend(t, resp) ==
    /\ t \in TasksAt({"send"})
    /\ IF resp = "raise" \/ ~db_present THEN TaskExits(t, "early_return")
       ELSE TaskMoves(t, [t EXCEPT !.msg = TRUE, !.pc = "save_id"])
    /\ UNCHANGED <<procVars, envVars, lb_cmds, cog_loaded>>

\* update_leaderboard_message_id answers (lines 364-369)
TaskSaveId(t, resp) ==
    /\ t \in TasksAt({"save_id"})
    /\ IF resp = "raise" THEN TaskExits(t, "early_return")
       ELSE /\ lb_tasks' = (lb_tasks (-) SetToBag({t})) (+)
                               SetToBag({[t EXCEPT !.pc = "sleep"]})
            /\ lb_configs' = IF lb_configs[t.id].count > 0
                             THEN [lb_configs EXCEPT ![t.id].message_id = TRUE]
                             ELSE lb_configs
            /\ last' = Step
            /\ UNCHANGED running_tasks
    /\ UNCHANGED <<procVars, envVars, lb_cmds, cog_loaded>>

\* asyncio.sleep returns (line 376)
TaskWake(t) ==
    /\ t \in TasksAt({"sleep"})
    /\ LoopHead(t, t)
    /\ UNCHANGED <<procVars, envVars, lb_cmds, cog_loaded>>

\* the task is cancelled: CancelledError is raised at its await and passes
\* the inner "except Exception" handlers (lines 378-384)
TaskCancel(t) ==
    /\ t \in TasksAt(Suspended \cup {"created"})
    /\ TaskExits(t, IF t.pc = "created" THEN "never_started" ELSE "cancelled")
    /\ UNCHANGED <<procVars, envVars, lb_cmds, cog_loaded>>

\* an exception outside the inner handlers: wait_until_ready or
\* asyncio.sleep raises (lines 380-384)
TaskError(t) ==
    /\ t \in TasksAt({"wait_ready", "sleep"})
    /\ TaskExits(t, "error")
    /\ UNCHANGED <<procVars, envVars, lb_cmds, cog_loaded>>

(***************************************************************************)
(* create_leaderboard, remove_leaderboard and cog_load.                    *)
(***************************************************************************)
CmdsAt(cmd, pc) == {c \in BagToSet(lb_cmds) : c.cmd = cmd /\ c.pc = pc}

\* the handler suspends at an await
CmdSuspends(c) ==
    /\ BagCardinality(lb_cmds) < MaxCmds
    /\ lb_cmds' = lb_cmds (+) SetToBag({c})

\* the duplicate check of line 412 left out
AlreadyRunningNever(id) == FALSE

\* task_id in self.running_tasks (line 412)
AlreadyRunning(id) == id \in running_tasks

\* create_leaderboard for the tuple id, lines 401-428: from the return of
\* ctx.defer (the handler reads and writes nothing before it) to the await
\* of add_automated_leaderboard
CreateRun(id, update_interval) ==
    LET outcome ==
            IF ~(1 <= update_interval /\ update_interval <= 720) THEN "bad_interval"
            ELSE IF AlreadyRunning(id) THEN "rejected"
            ELSE IF ~db_present THEN "no_db"
            ELSE "persisting"
    IN  /\ IF outcome = "persisting"
           THEN CmdSuspends([cmd |-> "create", id |-> id, pc |-> "add_db"])
           ELSE UNCHANGED lb_cmds
        /\ last' = [op |-> "create", outcome |-> outcome,
                    was_running |-> id \in running_tasks]
        /\ UNCHANGED <<procVars, envVars, running_tasks, lb_tasks, lb_configs,
                       cog_loaded>>

\* lines 428-441: add_automated_leaderboard answers; the tuple is added and
\* the task created
CreateAddDb(c, resp) ==
    /\ c \in CmdsAt("create", "add_db")
    /\ lb_cmds' = lb_cmds (-) SetToBag({c})
    /\ IF resp = "raise"
       THEN /\ last' = Step
            /\ UNCHANGED <<running_tasks, lb_tasks, lb_configs>>
       ELSE /\ BagCardinality(lb_tasks) < MaxTasks
            /\ lb_configs[c.id].count < MaxConfigs
            /\ lb_configs' = [lb_configs EXCEPT ![c.id].count = @ + 1]
            /\ running_tasks' = running_tasks \cup {c.id}
            /\ lb_tasks' = lb_tasks (+) SetToBag({NewTask(c.id, FALSE)})
            /\ last' = Step
    /\ UNCHANGED <<procVars, envVars, cog_loaded>>

\* remove_leaderboard for the tuple id, lines 459-484, from the return of
\* ctx.defer.  The scan of asyncio.all_tasks() reads __defaults__ of the
\* coroutine of the first run_leaderboard_task task it meets; a coroutine
\* object has no such attribute, so the handler leaves through "except
\* Exception" (lines 489-491) whenever such a task exists.
RemoveRun(id) ==
    LET outcome ==
            IF id \notin running_tasks THEN "not_running"
            ELSE IF BagToSet(lb_tasks) # {} THEN "failed"
            ELSE IF ~db_present THEN "no_db"
            ELSE "removing"
    IN  /\ IF outcome = "removing"
           THEN CmdSuspends([cmd |-> "remove", id |-> id, pc |-> "remove_db"])
           ELSE UNCHANGED lb_cmds
        /\ running_tasks' = IF outcome \in {"no_db", "removing"}
                            THEN running_tasks \ {id}
                            ELSE running_tasks
        /\ last' = [op |-> "remove", outcome |-> outcome]
        /\ UNCHANGED <<procVars, envVars, lb_tasks, lb_configs, cog_loaded>>

\* remove_automated_leaderboard answers (lines 484-487)
RemoveDb(c, resp) ==
    /\ c \in CmdsAt("remove", "remove_db")
    /\ lb_cmds' = lb_cmds (-) SetToBag({c})
    /\ lb_configs' = IF resp = "raise" THEN lb_configs
                     ELSE [lb_configs EXCEPT ![c.id] = NoConfig]
    /\ last' = Step
    /\ UNCHANGED <<procVars, envVars, running_tasks, lb_tasks, cog_loaded>>

\* cog_load is called (lines 242-248): without a persistence manager it
\* returns, else it awaits the first guild document
CogLoadStart ==
    /\ ~cog_loaded
    /\ cog_loaded' = TRUE
    /\ IF db_present
       THEN CmdSuspends([cmd |-> "cog_load", id |-> "all", pc |-> "cursor"])
       ELSE UNCHANGED lb_cmds
    /\ last' = Step
    /\ UNCHANGED <<procVars, envVars, running_tasks, lb_tasks, lb_configs>>

\* the tuples whose stored configuration cog_load starts a task for
ToLoad ==
    {id \in TaskIds : /\ lb_configs[id].count > 0
                      /\ ConfigStarts(lb_configs[id].ty)
                      /\ id \notin running_tasks}

\* the guild document arrives: every configuration of the guild is gone
\* through without an await (lines 249-291)
CogLoadGuild(c) ==
    /\ c \in CmdsAt("cog_load", "cursor")
    /\ BagCardinality(lb_tasks) + Cardinality(ToLoad) <= MaxTasks
    /\ lb_cmds' = lb_cmds (-) SetToBag({c})
    /\ running_tasks' = running_tasks \cup ToLoad
    /\ lb_tasks' = lb_tasks (+)
           SetToBag({NewTask(id, lb_configs[id].message_id) : id \in ToLoad})
    /\ last' = Step
    /\ UNCHANGED <<procVars, envVars, lb_configs, cog_loaded>>

(***************************************************************************)
(* Leaderboard specification: configurations stored by an earlier run of   *)
(* the bot, cog_load, create and remove commands, the tasks' steps, their  *)
(* cancellation, the ready signal and the persistence manager coming and   *)
(* going.                                                                  *)
(***************************************************************************)
StoredConfigs ==
    [TaskIds -> {NoConfig, [count |-> 1, message_id |-> TRUE,
                            ty |-> WellFormedConfig]}]

InitLB == \E cfgs \in StoredConfigs : InitWith(TRUE, TRUE, {1}, cfgs)

Intervals == {0, 24, 721}

NextLB ==
    \/ BotReady
    \/ \E b \in BOOLEAN : SetDb(b)
    \/ CogLoadStart
    \/ \E c \in BagToSet(lb_cmds) : CogLoadGuild(c)
    \/ \E id \in TaskIds : \E i \in Intervals : CreateRun(id, i)
    \/ \E c \in BagToSet(lb_cmds) : \E resp \in Responses : CreateAddDb(c, resp)
    \/ \E id \in TaskIds : RemoveRun(id)
    \/ \E c \in BagToSet(lb_cmds) : \E resp \in Responses : RemoveDb(c, resp)
    \/ \E t \in BagToSet(lb_tasks) : \E found \in BOOLEAN : TaskStart(t, found)
    \/ \E t \in BagToSet(lb_tasks) : \E found \in BOOLEAN : TaskReady(t, found)
    \/ \E t \in BagToSet(lb_tasks) : \E resp \in Responses : TaskFetch(t, resp)
    \/ \E t \in BagToSet(lb_tasks) :
          \E resp \in {"embed", "no_embed", "raise"} : TaskGetLeaderboard(t, resp)
    \/ \E t \in BagToSet(lb_tasks) :
          \E resp \in {"ok", "NotFound", "raise"} : TaskEdit(t, resp)
    \/ \E t \in BagToSet(lb_tasks) : \E resp \in Responses : TaskSend(t, resp)
    \/ \E t \in BagToSet(lb_tasks) : \E resp \in Responses : TaskSaveId(t, resp)
    \/ \E t \in BagToSet(lb_tasks) : TaskWake(t)
    \/ \E t \in BagToSet(lb_tasks) : TaskCancel(t)
    \/ \E t \in BagToSet(lb_tasks) : TaskError(t)

SpecLB == InitLB /\ [][NextLB]_vars

\* C7: in every reachable state at most one live leaderboard task exists for
\* each (guild_id, channel_id, leaderboard_type, server_id) tuple.
C7_AtMostOneTask == \A id \in TaskIds : LiveTasks(id) <= 1

\* C8: a create command that finds its tuple in the running-task set is
\* rejected: it starts no task, persists no configuration, leaves the
\* running-task set unchanged and leaves no handler behind that could do so
\* later.
C8_CreateRejected ==
    [][(last'.op = "create" /\ last'.was_running) =>
           /\ last'.outcome \in {"rejected", "bad_interval"}
           /\ lb_tasks' = lb_tasks
           /\ lb_configs' = lb_configs
           /\ running_tasks' = running_tasks
           /\ lb_cmds' = lb_cmds]_vars

\* a create command with a valid interval has just been rejected while a
\* task of some tuple is alive
C8_Witness ==
    /\ last.op = "create"
    /\ last.was_running
    /\ last.outcome = "rejected"
    /\ BagToSet(lb_tasks) # {}

\* C9: when a leaderboard task exits by a cancellation delivered at one of
\* its awaits, by an early return or by an unhandled error, its tuple is not
\* in the running-task set in the state right after the exit.
C9_ExitDiscards ==
    (last.op = "task_exit" /\ last.how \in {"cancelled", "early_return", "error"})
        => last.id \notin running_tasks

\* a task has just been cancelled at an await and the other tuple is still
\* in the running-task set
C9_Witness ==
    /\ last.op = "task_exit"
    /\ last.how = "cancelled"
    /\ last.id \notin running_tasks
    /\ running_tasks # {}

(***************************************************************************)
(* Properties of the flush (process_kill_events), statistics               *)
(* specification.                                                          *)
(***************************************************************************)
\* the invocation in slot s enters process_kill_events in this step: the
\* task created by on_ready runs, or flush_buffer resumes after its deferral
FlushEnters(s) ==
    /\ flushers[s].pc \in {"created", "defer"}
    /\ flushers'[s] # flushers[s]

\* C11: a flush of an empty buffer dispatches no event, makes no persistence
\* call and leaves the buffer, the flood windows and the statistics
\* unchanged; the invocation is over when the step ends, so that any number
\* of such flushes leaves the state one of them leaves.
C11_EmptyFlushNoOp ==
    [][\A s \in Slots :
          (FlushEnters(s) /\ kill_event_buffer = <<>>) =>
              /\ flushers' = [flushers EXCEPT ![s] = FreeFlusher]
              /\ kill_event_buffer' = <<>>
              /\ recent_kill_times' = recent_kill_times
              /\ stats' = stats
              /\ UNCHANGED <<processor_enabled, processor_running, envVars,
                             now, lbVars>>]_vars

\* a manual flush has just returned with every guard passed and nothing ever
\* appended to the buffer
C11_Witness ==
    /\ last.op = "flush_end" /\ last.kind = "manual"
    /\ added = 0 /\ kill_event_buffer = <<>>
    /\ processor_enabled /\ bot_ready /\ db_present
    /\ \A s \in Slots : flushers[s] = FreeFlusher

(***************************************************************************)
(* Drain specification: DrainBacklog events have accumulated before the    *)
(* ready signal (add_kill_event was called that often while the bot was    *)
(* not ready); from there flush-on-full, the flush of the task created by  *)
(* on_ready and manual flushes run side by side while events keep          *)
(* arriving.                                                               *)
(***************************************************************************)
\* events appended before the specification starts
DrainBacklog == 49

InitDrain ==
    /\ processor_enabled = TRUE
    /\ processor_running = FALSE
    /\ kill_event_buffer = [i \in 1..DrainBacklog |-> PlainEvent]
    /\ recent_kill_times = [p \in Players |-> <<>>]
    /\ bot_ready = FALSE
    /\ db_present = TRUE
    /\ has_v2 = TRUE
    /\ premium_guilds = {1}
    /\ stats = [p \in Players |-> NoRecord]
    /\ now = 0
    /\ flushers = [s \in Slots |-> FreeFlusher]
    /\ running_tasks = {}
    /\ lb_tasks = EmptyBag
    /\ lb_configs = NoConfigs
    /\ lb_cmds = EmptyBag
    /\ cog_loaded = FALSE
    /\ checks = <<>>
    /\ solo = NotSolo
    /\ added = DrainBacklog
    /\ last = [op |-> "init"]

NextDrain ==
    \/ added < MaxAdds /\ AddKillEvent(PlainEvent)
    \/ BotReady
    \/ OnReady
    \/ \E s \in Slots : ReadyTaskRun(s)
    \/ FlushBufferInvoke
    \/ \E s \in Slots : FlushBufferRun(s)
    \/ \E s \in Slots : GatherDone(s)
    \/ \E s \in Slots : \E u \in BagToSet(flushers[s].units) :
          \E resp \in Responses : UnitPremium(s, u, resp)

SpecDrain == InitDrain /\ [][NextDrain]_vars

\* the units of the gathers of slots 1..n of f
RECURSIVE UnitsUpTo(_, _)
UnitsUpTo(f, n) ==
    IF n = 0 THEN EmptyBag ELSE f[n].units (+) UnitsUpTo(f, n - 1)

\* every per-event unit that has been dispatched and has not returned
AllUnits(f) == UnitsUpTo(f, MaxFlushers)

\* C12: in every step the events that leave the buffer are a prefix of it
\* (after the event the step appends, if any), each of them is dispatched as
\* exactly one new per-event unit, and a step that removes nothing
\* dispatches nothing: an appended event is dispatched at most once and
\* never leaves the buffer undispatched.
C12_DispatchedOnce ==
    [][LET buf == IF added' > added
                  THEN Append(kill_event_buffer, last'.ev)
                  ELSE kill_event_buffer
           k == Len(buf) - Len(kill_event_buffer')
       IN  /\ k >= 0
           /\ kill_event_buffer' = SubSeq(buf, k + 1, Len(buf))
           /\ IF k > 0
              THEN AllUnits(flushers') =
                       AllUnits(flushers) (+) BatchUnits(SubSeq(buf, 1, k))
              ELSE BagCardinality(AllUnits(flushers')) <=
                       BagCardinality(AllUnits(flushers))]_vars

\* a flush-on-full and a manual flush both await their gather and an event
\* has just been appended behind them
C12_Witness ==
    /\ last.op = "add" /\ last.outcome = "appended" /\ ~last.flush
    /\ kill_event_buffer # <<>>
    /\ \E s1, s2 \in Slots :
          /\ flushers[s1].kind = "add" /\ flushers[s1].pc = "gather"
          /\ flushers[s2].kind = "manual" /\ flushers[s2].pc = "gather"
          /\ flushers[s1].units # EmptyBag /\ flushers[s2].units # EmptyBag

(***************************************************************************)
(* Scheduler specification: events of a premium guild arrive, fewer than   *)
(* buffer_size of them, and nobody flushes by hand.  The event loop runs   *)
(* every task that can run: the listener of the ready signal, the task it  *)
(* creates, the loop of process_kill_events after its gather and every     *)
(* per-event unit whose awaited call is answered are weakly fair.  The     *)
(* arrival of events, the ready signal and a failing persistence call are  *)
(* up to the environment.                                                  *)
(***************************************************************************)
SchedEvent == KillEvent(1, "A", "B", FALSE)

UnitStep ==
    \E s \in Slots : \E u \in BagToSet(flushers[s].units) :
        \/ \E resp \in Responses : UnitPremium(s, u, resp)
        \/ UnitRead(s, u)
        \/ UnitWrite(s, u)

NextSched ==
    \/ added < MaxEvents /\ AddKillEvent(SchedEvent)
    \/ BotReady
    \/ OnReady
    \/ \E s \in Slots : ReadyTaskRun(s)
    \/ \E s \in Slots : GatherDone(s)
    \/ UnitStep
    \/ \E s \in Slots : \E u \in BagToSet(flushers[s].units) : UnitDbError(s, u)

SpecSched ==
    /\ InitStats
    /\ [][NextSched]_vars
    /\ WF_vars(OnReady)
    /\ WF_vars(\E s \in Slots : ReadyTaskRun(s))
    /\ WF_vars(\E s \in Slots : GatherDone(s))
    /\ WF_vars(UnitStep)

\* the scheduler is RUNNING: the ready signal has arrived and on_ready has
\* started the processor, which is enabled, with the persistence manager
\* present
SchedulerRunning ==
    bot_ready /\ processor_running /\ processor_enabled /\ db_present

\* C13: while the scheduler is RUNNING every buffered event is eventually
\* dispatched, whatever the occupancy and without a manual flush: a
\* non-empty buffer is eventually drained.
C13_PeriodicDrain ==
    (SchedulerRunning /\ kill_event_buffer # <<>>) ~> (kill_event_buffer = <<>>)

(***************************************************************************)
(* Admission specification: one killer's events of a premium guild arrive, *)
(* more of them than flood_threshold, and are processed by the flush of    *)
(* the task created by on_ready and by manual flushes.                     *)
(***************************************************************************)
\* add_kill_event calls of the admission specification
MaxAdmit == 6

NextAdmit ==
    \/ added < MaxAdmit /\ AddKillEvent(SchedEvent)
    \/ BotReady
    \/ OnReady
    \/ \E s \in Slots : ReadyTaskRun(s)
    \/ FlushBufferInvoke
    \/ \E s \in Slots : FlushBufferRun(s)
    \/ \E s \in Slots : GatherDone(s)
    \/ \E s \in Slots : \E u \in BagToSet(flushers[s].units) :
          \E resp \in Responses : UnitPremium(s, u, resp)
    \/ \E s \in Slots : \E u \in BagToSet(flushers[s].units) : UnitDbError(s, u)

SpecAdmit == InitStats /\ [][NextAdmit]_vars

\* C14: an event is appended to the buffer only if the flood guard, asked
\* at that moment, does not flag its killer: the killer's window, pruned and
\* extended by the current time, holds at most flood_threshold timestamps.
C14_FloodCheckedAtAdmission ==
    (last.op = "add" /\ last.outcome = "appended") =>
        ~IsFlooding(recent_kill_times[last.ev.killer], now)

(***************************************************************************)
(* Entitlement specification: events of two guilds arrive and are          *)
(* processed by the flush of the task created by on_ready, while the       *)
(* entitlement of each guild is granted and withdrawn and the persistence  *)
(* manager (the fallback provider) comes and goes.  The primary provider   *)
(* has the capability or not from the start.                               *)
(***************************************************************************)
Guilds == {1, 2}

PremiumEvents == {KillEvent(g, "A", "B", FALSE) : g \in Guilds}

InitPremium == \E v2 \in BOOLEAN : InitWith(TRUE, v2, {1}, NoConfigs)

NextPremium ==
    \/ \E e \in PremiumEvents : added < MaxEvents /\ AddKillEvent(e)
    \/ BotReady
    \/ OnReady
    \/ \E b \in BOOLEAN : SetDb(b)
    \/ \E g \in Guilds : SetPremium(g)
    \/ \E s \in Slots : ReadyTaskRun(s)
    \/ \E s \in Slots : GatherDone(s)
    \/ UnitStep
    \/ \E s \in Slots : \E u \in BagToSet(flushers[s].units) : UnitDbError(s, u)

SpecPremium == InitPremium /\ [][NextPremium]_vars

\* C15: when a per-event unit reaches the premium gate and its guild has no
\* premium access at that moment, the unit returns in that step: it never
\* reaches the await of record_kill_event (nothing is written to the event
\* log) and no player counter changes.
C15_NoPremiumNoWrite ==
    [][\A s \in Slots : \A u \in UnitsAt(s, {"premium"}) :
          (/\ u.ev.guild_id \notin premium_guilds
           /\ CopiesIn(u, flushers'[s].units) < CopiesIn(u, flushers[s].units)) =>
              /\ flushers'[s].units = flushers[s].units (-) SetToBag({u})
              /\ stats' = stats]_vars

\* an event of guild 1 was admitted while the guild was entitled and is
\* refused at the gate after the entitlement was withdrawn, next to an event
\* that was applied
C15_Witness ==
    /\ last.op = "unit_done" /\ last.outcome = "not_premium"
    /\ last.ev.guild_id = 1 /\ 1 \notin premium_guilds
    /\ has_v2
    /\ stats["A"].exists /\ stats["A"].kills = 1

\* C16: is_premium answers false for every guild when neither provider is
\* present, and whenever the provider it consults raises, also when the
\* other provider is present; the fallback provider is the one consulted
\* only when the primary provider lacks the capability.
C16_FailsClosed ==
    \A g \in Guilds :
        /\ (~has_v2 /\ ~db_present) => \A resp \in Responses : ~is_premium(g, resp)
        /\ ~is_premium(g, "raise")
        /\ PremiumProvider = "db_manager" => ~has_v2

\* an event of an entitled guild is refused at the gate because neither
\* provider is present when it is processed
C16_Witness ==
    /\ last.op = "unit_done" /\ last.outcome = "not_premium"
    /\ last.ev.guild_id \in premium_guilds
    /\ ~has_v2 /\ ~db_present

(***************************************************************************)
(* Further properties of the buffer specification.                         *)
(***************************************************************************)
\* C17: in every reachable state the buffer holds at most buffer_size
\* events.
C17_OccupancyBounded == Len(kill_event_buffer) <= buffer_size

(***************************************************************************)
(* Failure specification: FailBacklog events have accumulated before the   *)
(* ready signal, more than one sub-batch of them: two events of a premium  *)
(* guild at the head of the first sub-batch, events of a guild without     *)
(* entitlement behind them, an event of the premium guild in the second    *)
(* sub-batch.  The task created by on_ready flushes them, and every        *)
(* awaited persistence call answers or raises.                             *)
(***************************************************************************)
\* events appended before the specification starts
FailBacklog == 21

FailEvent(i) ==
    CASE i = 1 -> KillEvent(1, "A", "B", FALSE)
      [] i = 2 -> KillEvent(1, "C", "C", TRUE)
      [] i > batch_size -> KillEvent(1, "B", "B", TRUE)
      [] OTHER -> PlainEvent

InitFail ==
    /\ processor_enabled = TRUE
    /\ processor_running = FALSE
    /\ kill_event_buffer = [i \in 1..FailBacklog |-> FailEvent(i)]
    /\ recent_kill_times = [p \in Players |-> <<>>]
    /\ bot_ready = FALSE
    /\ db_present = TRUE
    /\ has_v2 = TRUE
    /\ premium_guilds = {1}
    /\ stats = [p \in Players |-> NoRecord]
    /\ now = 0
    /\ flushers = [s \in Slots |-> FreeFlusher]
    /\ running_tasks = {}
    /\ lb_tasks = EmptyBag
    /\ lb_configs = NoConfigs
    /\ lb_cmds = EmptyBag
    /\ cog_loaded = FALSE
    /\ checks = <<>>
    /\ solo = NotSolo
    /\ added = FailBacklog
    /\ last = [op |-> "init"]

NextFail ==
    \/ BotReady
    \/ OnReady
    \/ \E s \in Slots : ReadyTaskRun(s)
    \/ \E s \in Slots : GatherDone(s)
    \/ UnitStep
    \/ \E s \in Slots : \E u \in BagToSet(flushers[s].units) : UnitDbError(s, u)

SpecFail == InitFail /\ [][NextFail]_vars

\* C18: a step in which a persistence call of one per-event unit fails
\* removes that unit from its gather and changes nothing else: the other
\* units of the sub-batch stay in flight, the invocation stays at its gather,
\* buffer and statistics are unchanged.  An invocation whose gather has
\* returned dispatches the next sub-batch while the buffer is not empty, and
\* it ends only with every unit returned and the buffer empty.
C18_FailureContained ==
    [][/\ (last'.op = "unit_done" /\ last'.outcome = "db_error") =>
              /\ \E s \in Slots : \E u \in BagToSet(flushers[s].units) :
                    /\ u.ev = last'.ev
                    /\ flushers' = [flushers EXCEPT
                           ![s].units = @ (-) SetToBag({u})]
              /\ kill_event_buffer' = kill_event_buffer
              /\ stats' = stats
       /\ \A s \in Slots :
              (flushers[s].pc = "gather" /\ flushers'[s].pc # "gather") =>
                  /\ flushers[s].units = EmptyBag
                  /\ kill_event_buffer = <<>>
                  /\ kill_event_buffer' = <<>>
       /\ \A s \in Slots :
              (/\ flushers[s].pc = "gather"
               /\ flushers[s].units = EmptyBag
               /\ kill_event_buffer # <<>>
               /\ flushers'[s] # flushers[s]) =>
                  /\ flushers'[s].pc = "gather"
                  /\ flushers'[s].units =
                         BatchUnits(FirstBatch(kill_event_buffer))
                  /\ kill_event_buffer' = RestBuffer(kill_event_buffer)]_vars

\* a persistence call of the first event has just failed while another event
\* of the premium guild of the same sub-batch is in flight and a later
\* sub-batch waits in the buffer
C18_Witness ==
    /\ last.op = "unit_done" /\ last.outcome = "db_error"
    /\ last.ev = FailEvent(1)
    /\ kill_event_buffer # <<>>
    /\ \E s \in Slots :
          /\ flushers[s].pc = "gather"
          /\ \E u \in BagToSet(flushers[s].units) : u.ev = FailEvent(2)

(***************************************************************************)
(* Unavailability specification: from the backlog of the drain             *)
(* specification, with the processor switched off and on and the           *)
(* persistence manager going away and coming back while events arrive, the *)
(* task of on_ready runs and manual flushes are invoked.                   *)
(***************************************************************************)
NextUnavail ==
    \/ added < DrainBacklog + 1 /\ AddKillEvent(PlainEvent)
    \/ ToggleProcessor
    \/ \E b \in BOOLEAN : SetDb(b)
    \/ BotReady
    \/ OnReady
    \/ \E s \in Slots : ReadyTaskRun(s)
    \/ FlushBufferInvoke
    \/ \E s \in Slots : FlushBufferRun(s)
    \/ \E s \in Slots : GatherDone(s)
    \/ \E s \in Slots : \E u \in BagToSet(flushers[s].units) :
          \E resp \in Responses : UnitPremium(s, u, resp)

SpecUnavail == InitDrain /\ [][NextUnavail]_vars

C20_SendFailureIsolated ==
    [][\A t \in BagToSet(lb_tasks) :
          TaskSend(t, "raise") =>
              /\ lb_tasks' = lb_tasks (-) SetToBag({t})
              /\ t.id \notin running_tasks'
              /\ \A t2 \in BagToSet(lb_tasks') :
                    (t2.id \in running_tasks') = (t2.id \in running_tasks)
              /\ kill_event_buffer' = kill_event_buffer
              /\ stats' = stats]_vars

\* C21: when message.edit fails in a leaderboard task, with NotFound or with
\* any other exception, the task drops the message it holds and goes on to
\* channel.send in the same iteration.
C21_EditFailureRecreates ==
    [][\A t \in BagToSet(lb_tasks) : \A resp \in {"NotFound", "raise"} :
          TaskEdit(t, resp) =>
              lb_tasks' = (lb_tasks (-) SetToBag({t})) (+)
                              SetToBag({[t EXCEPT !.msg = FALSE, !.pc = "send"]})]_vars

\* C22: the remove command run for a tuple that is in the running-task set
\* and has a live task, with the persistence manager present, takes the
\* tuple out of the set and goes on to remove_automated_leaderboard; once
\* that call has answered the stored configuration of the tuple is gone.
C22_RemoveStopsTask ==
    [][/\ \A id \in TaskIds :
              (/\ RemoveRun(id)
               /\ id \in running_tasks
               /\ LiveTasks(id) > 0
               /\ db_present) =>
                  /\ id \notin running_tasks'
                  /\ lb_cmds' # lb_cmds
       /\ \A c \in BagToSet(lb_cmds) :
              RemoveDb(c, "ok") => lb_configs'[c.id] = NoConfig]_vars

(***************************************************************************)
(* Further properties of the statistics specification.                     *)
(***************************************************************************)
\* C23: when a manual flush returns, the count its acknowledgment reports
\* equals the number of events this invocation of process_kill_events has
\* dispatched.
C23_ReportedCount ==
    (last.op = "flush_end" /\ last.kind = "manual") => last.miscount = 0

(***************************************************************************)
(* Lost-update specification: two kills of the same killer on different    *)
(* victims, for a premium guild, are flushed by the task of on_ready; the  *)
(* units of a sub-batch interleave at their awaits.  There is one flush    *)
(* invocation, so units in flight together belong to one sub-batch.        *)
(***************************************************************************)
LostEvents == {KillEvent(1, "A", "B", FALSE), KillEvent(1, "A", "C", FALSE)}

NextLost ==
    \/ \E e \in LostEvents : added < MaxEvents /\ AddKillEvent(e)
    \/ BotReady
    \/ OnReady
    \/ \E s \in Slots : ReadyTaskRun(s)
    \/ \E s \in Slots : GatherDone(s)
    \/ UnitStep
    \/ \E s \in Slots : \E u \in BagToSet(flushers[s].units) : UnitDbError(s, u)

SpecLost == InitStats /\ [][NextLost]_vars

\* C24: the update_player_stats call for the killer stores the kills of the
\* snapshot the unit read at line 150 plus 1, whatever another unit has
\* written since (last write wins on the read snapshot); so two units that
\* both read before either writes leave the killer's kills grown by 1.
C24_LostUpdate ==
    [][\A s \in Slots : \A u \in UnitsAt(s, {"upd_killer"}) :
          UnitWrite(s, u) =>
              Counter(stats', u.ev.killer, "kills") = OrZero(u.ks).kills + 1]_vars

\* both events have been applied to the end (each victim has its death),
\* nothing is in flight, and the killer's kills is 1
C24_Witness ==
    /\ added = 2 /\ kill_event_buffer = <<>> /\ InFlight = {}
    /\ last.op = "unit_done" /\ last.outcome = "applied"
    /\ Counter(stats, "B", "deaths") = 1
    /\ Counter(stats, "C", "deaths") = 1
    /\ Counter(stats, "A", "kills") = 1

(***************************************************************************)
(* Loading specification: an earlier run has stored a configuration for    *)
(* tuple T1 that differs from a well-formed one in the value of one key,   *)
(* with or without a message id, and possibly a well-formed one for T2;    *)
(* cog_load goes through them and the tasks it starts take their first     *)
(* steps.                                                                  *)
(***************************************************************************)
ConfigVariants ==
    {[WellFormedConfig EXCEPT ![f] = t] : f \in ConfigFields, t \in ConfigTags}

LoadConfigs ==
    {[id \in TaskIds |->
         IF id = "T1" THEN [count |-> 1, message_id |-> m, ty |-> ty]
         ELSE other] :
       m \in BOOLEAN, ty \in ConfigVariants,
       other \in {NoConfig, [count |-> 1, message_id |-> TRUE,
                             ty |-> WellFormedConfig]}}

InitLoad == \E cfgs \in LoadConfigs : InitWith(TRUE, TRUE, {1}, cfgs)

NextLoad ==
    \/ BotReady
    \/ CogLoadStart
    \/ \E c \in BagToSet(lb_cmds) : CogLoadGuild(c)
    \/ \E t \in BagToSet(lb_tasks) : \E found \in BOOLEAN : TaskStart(t, found)
    \/ \E t \in BagToSet(lb_tasks) : \E found \in BOOLEAN : TaskReady(t, found)
    \/ \E t \in BagToSet(lb_tasks) : \E resp \in Responses : TaskFetch(t, resp)

SpecLoad == InitLoad /\ [][NextLoad]_vars

\* the tasks of tuple id and its set membership are the same before and
\* after the step
TupleUntouched(id) ==
    /\ (id \in running_tasks') = (id \in running_tasks)
    /\ \A t \in BagToSet(lb_tasks) \cup BagToSet(lb_tasks') :
          t.id = id => CopiesIn(t, lb_tasks') = CopiesIn(t, lb_tasks)

\* exactly one task of tuple id is started, resuming from the message id m,
\* and the tuple is in the running-task set
OneTaskStarted(id, m) ==
    /\ id \in running_tasks'
    /\ LiveTasks(id) = 0
    /\ \A t \in BagToSet(lb_tasks') :
          t.id = id => t = NewTask(id, m) /\ CopiesIn(t, lb_tasks') = 1
    /\ NewTask(id, m) \in BagToSet(lb_tasks')

\* the configuration has all four keys with a value other than None, and
\* the guild and channel ids are integers
HasAllFields(ty) ==
    /\ \A f \in ConfigFields \ {"guild_id"} : ty[f] \notin {"absent", "None"}
    /\ ty["guild_id"] \in {"int", "zero", "true"}
    /\ ty["channel_id"] \in {"int", "zero", "true"}

\* C25 as stated: when cog_load goes through the stored configurations, it
\* starts exactly one task, resuming from the stored message id, for every
\* tuple not yet running whose configuration has all of channel_id,
\* leaderboard_type, server_id and update_interval and integer guild and
\* channel ids, and starts nothing for every other configuration.
C25_AsStated ==
    [][\A c \in BagToSet(lb_cmds) : CogLoadGuild(c) =>
          \A id \in TaskIds :
              IF /\ lb_configs[id].count > 0
                 /\ id \notin running_tasks
                 /\ HasAllFields(lb_configs[id].ty)
              THEN OneTaskStarted(id, lb_configs[id].message_id)
              ELSE TupleUntouched(id)]_vars

\* the values cog_load accepts, key by key: ids that are instances of int
\* and not 0, a leaderboard_type that is true and hashable, a server_id that
\* is so or missing ('default'), an update_interval that is true or missing
\* (24)
Loadable(ty) ==
    /\ ty["guild_id"] \in {"int", "true"}
    /\ ty["channel_id"] \in {"int", "true"}
    /\ ty["leaderboard_type"] \in {"int", "str", "true"}
    /\ ty["server_id"] \in {"int", "str", "true", "absent"}
    /\ ty["update_interval"] \in {"int", "str", "true", "list", "absent"}

\* C25: when cog_load goes through the stored configurations, it starts
\* exactly one task, resuming from the stored message id, for every tuple
\* not yet running whose configuration has values cog_load accepts (a
\* missing server_id or update_interval is replaced by its default), and
\* starts nothing for every other configuration, which does not keep the
\* configurations of the other tuples from being loaded.
C25_StartupLoad ==
    [][\A c \in BagToSet(lb_cmds) : CogLoadGuild(c) =>
          \A id \in TaskIds :
              IF /\ lb_configs[id].count > 0
                 /\ id \notin running_tasks
                 /\ Loadable(lb_configs[id].ty)
              THEN OneTaskStarted(id, lb_configs[id].message_id)
              ELSE TupleUntouched(id)]_vars

\* cog_load has gone through a configuration of T1 with a channel_id that is
\* not an int and a well-formed one of T2: T1 has no task, T2 has its task,
\* which resumes from the stored message id
C25_Witness ==
    /\ cog_loaded /\ lb_cmds = EmptyBag
    /\ lb_configs["T1"].ty["channel_id"] = "str"
    /\ LiveTasks("T1") = 0 /\ "T1" \notin running_tasks
    /\ lb_tasks = SetToBag({NewTask("T2", TRUE)})
    /\ running_tasks = {"T2"}

MaxCount == 10

StoredCounters ==
    {NoRecord} \cup
    {[exists |-> TRUE, kills |-> k, deaths |-> d, suicides |-> 0] :
        k \in 0..MaxCount, d \in 0..MaxCount}

\* "kdr = (total_kills / total_deaths) if total_deaths else total_kills"
\* without the test of total_deaths
KdRatioNoGuard(total_kills, total_deaths) ==
    [num |-> total_kills, den |-> total_deaths]

\* kdr = (total_kills / total_deaths) if total_deaths else total_kills
KdRatio(total_kills, total_deaths) ==
    IF total_deaths # 0 THEN [num |-> total_kills, den |-> total_deaths]
    ELSE [num |-> total_kills, den |-> 1]

\* "for character in linked_characters: ... total += stats.get(c, 0)"
RECURSIVE Total(_, _)
Total(linked, c) ==
    IF linked = {} THEN 0
    ELSE LET p == CHOOSE q \in linked : TRUE
         IN  Counter(stats, p, c) + Total(linked \ {p}, c)

\* the profile command (cmd = "profile") or the kd command (cmd = "kd") of a
\* caller whose linked characters are linked
RatioCommand(cmd, linked) ==
    /\ last' = IF linked = {} THEN [op |-> cmd, outcome |-> "no_linked"]
               ELSE [op |-> cmd, outcome |-> "sent",
                     kills |-> Total(linked, "kills"),
                     deaths |-> Total(linked, "deaths"),
                     kdr |-> KdRatio(Total(linked, "kills"),
                                     Total(linked, "deaths"))]
    /\ UNCHANGED <<processor_enabled, processor_running, kill_event_buffer,
                   recent_kill_times, envVars, stats, now, flushers, lbVars,
                   checks, solo, added>>

InitRatio ==
    /\ processor_enabled = TRUE
    /\ processor_running = FALSE
    /\ kill_event_buffer = <<>>
    /\ recent_kill_times = [p \in Players |-> <<>>]
    /\ bot_ready = TRUE
    /\ db_present = TRUE
    /\ has_v2 = TRUE
    /\ premium_guilds = {1}
    /\ \E a, b \in StoredCounters :
          stats = [p \in Players |-> IF p = "A" THEN a
                                     ELSE IF p = "B" THEN b ELSE NoRecord]
    /\ now = 0
    /\ flushers = [s \in Slots |-> FreeFlusher]
    /\ running_tasks = {}
    /\ lb_tasks = EmptyBag
    /\ lb_configs = NoConfigs
    /\ lb_cmds = EmptyBag
    /\ cog_loaded = FALSE
    /\ checks = <<>>
    /\ solo = NotSolo
    /\ added = 0
    /\ last = [op |-> "init"]

NextRatio ==
    \E cmd \in {"profile", "kd"} : \E linked \in SUBSET {"A", "B"} :
        RatioCommand(cmd, linked)

SpecRatio == InitRatio /\ [][NextRatio]_vars

\* C27: the ratio a command sends is kills divided by deaths when deaths > 0
\* and kills itself when deaths = 0, and no division by zero takes place;
\* kills = 10 with deaths = 0 gives 10, kills = 10 with deaths = 5 gives 2.
C27_KdRatio ==
    (last.op \in {"profile", "kd"} /\ last.outcome = "sent") =>
        /\ last.kdr.den # 0
        /\ IF last.deaths > 0
           THEN last.kdr.num * last.deaths = last.kills * last.kdr.den
           ELSE last.kdr = [num |-> last.kills, den |-> 1]
        /\ (last.kills = 10 /\ last.deaths = 0) =>
               last.kdr.num = 10 * last.kdr.den
        /\ (last.kills = 10 /\ last.deaths = 5) =>
               last.kdr.num = 2 * last.kdr.den

\* the kd command has just answered a caller whose two linked characters
\* have 10 kills and no death between them
C27_Witness ==
    /\ last.op = "kd" /\ last.outcome = "sent"
    /\ last.kills = 10 /\ last.deaths = 0
    /\ stats["A"].exists /\ stats["B"].exists
    /\ stats["A"].kills = 4 /\ stats["B"].kills = 6
    /\ last.kdr = [num |-> 10, den |-> 1]

\* C28: one non-suicide event whose killer and victim are the same player,
\* of a premium guild, applied with no other event in flight and no
\* persistence failure, adds 1 to that player's kills and 1 to that
\* player's deaths.
C28_SelfKill ==
    (AppliedAlone /\ ~last.ev.is_suicide /\ last.ev.killer = last.ev.victim) =>
        LET a == last.ev.killer
        IN  /\ Counter(stats, a, "kills") = Counter(last.pre, a, "kills") + 1
            /\ Counter(stats, a, "deaths") = Counter(last.pre, a, "deaths") + 1

(***************************************************************************)
(* Further properties of the failure specification.                        *)
(***************************************************************************)
\* the invocation in slot s dispatches units in this step
Dispatches(s) ==
    \E u \in BagToSet(flushers'[s].units) :
        /\ u.pc = "premium"
        /\ CopiesIn(u, flushers'[s].units) > CopiesIn(u, flushers[s].units)

\* C29: a flush invocation never has more than batch_size per-event units
\* in flight; when it dispatches units, every unit it dispatched before has
\* returned, and the units are those of the first batch_size events of the
\* buffer (all of them if there are fewer), which leave the buffer, the rest
\* keeping its order.
C29_SubBatchBarrier ==
    [][\A s \in Slots :
          /\ BagCardinality(flushers'[s].units) <= batch_size
          /\ Dispatches(s) =>
                /\ flushers[s].units = EmptyBag
                /\ \E n \in 1..batch_size :
                      /\ n <= Len(kill_event_buffer)
                      /\ n < batch_size => n = Len(kill_event_buffer)
                      /\ flushers'[s].units =
                             BatchUnits(SubSeq(kill_event_buffer, 1, n))
                      /\ kill_event_buffer' =
                             SubSeq(kill_event_buffer, n + 1,
                                    Len(kill_event_buffer))]_vars

\* the units of the first sub-batch have all returned and the invocation
\* has dispatched the rest of the backlog as its second sub-batch
C29_Witness ==
    /\ kill_event_buffer = <<>>
    /\ \E s \in Slots :
          /\ flushers[s].pc = "gather"
          /\ flushers[s].miscount = FailBacklog
          /\ flushers[s].units =
                 BatchUnits([i \in 1..(FailBacklog - batch_size) |->
                                FailEvent(batch_size + i)])

(***************************************************************************)
(* Further properties of the flood specification.                          *)
(***************************************************************************)
\* the earlier calls of h whose time is not more than time_window before
\* call i
Retained(h, i) == {j \in 1..(i - 1) : h[i].at - h[j].at <= time_window}

\* C30: every flood check leaves a window whose length is the number of
\* earlier checks of the actor not older than time_window, flagged or not,
\* plus one for the check itself, and flags exactly when that length
\* exceeds flood_threshold; so a check with flood_threshold or more earlier
\* checks within time_window is flagged, whether those were flagged or not.
C30_FlaggedEventsRecorded ==
    \A k \in Killers :
        LET h == ChecksOf(k)
        IN  /\ \A i \in 1..Len(h) :
                  /\ h[i].size = Cardinality(Retained(h, i)) + 1
                  /\ h[i].flooding = (h[i].size > flood_threshold)
            /\ Len(h) > 0 => Len(recent_kill_times[k]) = h[Len(h)].size

\* A sends seven events within one window: the sixth and the seventh are
\* both flagged and the window holds all seven
C30_Witness ==
    LET h == ChecksOf("A")
    IN  /\ Len(h) = 7
        /\ h[7].at - h[1].at <= time_window
        /\ h[6].flooding /\ h[7].flooding
        /\ Len(recent_kill_times["A"]) = 7

\* C31: a flood check of an actor leaves that actor's window with every
\* timestamp at most time_window before the time of the check, every entry
\* of the old window that is at most time_window old (exactly time_window
\* included) retained, the entries in non-decreasing order and the time of
\* the check last; the windows of the other actors are unchanged.
C31_WindowInvariant ==
    [][Len(checks') > Len(checks) =>
          LET c == checks'[Len(checks')]
              k == c.killer
              old == recent_kill_times[k]
              w == recent_kill_times'[k]
          IN  /\ c.at = now
              /\ Len(w) >= 1 /\ w[Len(w)] = now
              /\ \A i \in 1..Len(w) : now - w[i] <= time_window /\ w[i] <= now
              /\ \A i \in 1..(Len(w) - 1) : w[i] <= w[i + 1]
              /\ Len(w) = 1 + Cardinality({i \in 1..Len(old) :
                                             now - old[i] <= time_window})
              /\ \A i \in 1..Len(old) :
                    now - old[i] <= time_window =>
                        \E j \in 1..(Len(w) - 1) : w[j] = old[i]
              /\ \A p \in Players \ {k} :
                    recent_kill_times'[p] = recent_kill_times[p]]_vars

\* a check of A at time 60 has retained the entry of time 0, exactly
\* time_window old, while B's window holds an entry of its own
C31_Witness ==
    /\ now = time_window
    /\ Len(checks) > 0 /\ checks[Len(checks)].killer = "A"
    /\ checks[Len(checks)].at = now
    /\ Len(recent_kill_times["A"]) >= 2
    /\ recent_kill_times["A"][1] = 0
    /\ recent_kill_times["B"] # <<>>

(***************************************************************************)
(* Further properties of the admission specification.                      *)
(***************************************************************************)
\* C32: a per-event unit whose guild has premium access, with the
\* persistence manager present, goes on to call record_kill_event for its
\* event when the entitlement check has answered.
C32_PremiumRecorded ==
    [][\A s \in Slots : \A u \in UnitsAt(s, {"premium"}) :
          (/\ UnitPremium(s, u, "ok")
           /\ is_premium(u.ev.guild_id, "ok")
           /\ db_present) =>
              flushers' = [flushers EXCEPT ![s].units =
                              (@ (-) SetToBag({u})) (+)
                                  SetToBag({[u EXCEPT !.pc = "record"]})]]_vars

(***************************************************************************)
(* Empty-string specification: add_kill_event is handed the well-formed    *)
(* event and the events that differ from it in carrying the string '' under *)
(* killer, victim, weapon or server_id, while the processor is toggled.    *)
(* The specification ends at the buffer: no flush is started.              *)
(***************************************************************************)
\* add_kill_event calls of the empty-string specification
MaxEmpty == 3

EmptyEvents ==
    {PlainEvent} \cup
        {WithField(PlainEvent, StrKeys[i], "empty") : i \in 1..Len(StrKeys)}

NextEmpty ==
    \/ \E e \in EmptyEvents : added < MaxEmpty /\ AddKillEvent(e)
    \/ ToggleProcessor

SpecEmpty == InitIngest /\ [][NextEmpty]_vars

\* C33: every event in the buffer has all required fields present and
\* correctly typed, and its killer, victim, weapon and server_id are strings
\* of at least one character: no event with an empty one is in the buffer.
C33_BufferedEventsWellFormed ==
    \A i \in 1..Len(kill_event_buffer) :
        /\ \A f \in Fields : kill_event_buffer[i].ty[f] \in FieldTypes(f)
        /\ \A j \in 1..Len(StrKeys) :
              kill_event_buffer[i].ty[StrKeys[j]] # "empty"

\* slots whose flusher is the task of on_ready, created and not yet run
CreatedTasks(f) == {s \in Slots : f[s].pc = "created"}

\* C34: at most one task running process_kill_events is ever created by
\* ready signals: a task is created only by a step that finds
\* processor_running false and sets it, the flag is never cleared, the
\* first ready signal creates exactly one task, and a ready signal that
\* finds the flag set creates nothing and changes nothing else.
C34_OneSchedulerTask ==
    [][/\ processor_running => processor_running'
       /\ CreatedTasks(flushers') \ CreatedTasks(flushers) # {} =>
             /\ ~processor_running /\ processor_running'
             /\ last'.op = "on_ready"
       /\ (last'.op = "on_ready" /\ ~processor_running) =>
             /\ processor_running'
             /\ Cardinality(CreatedTasks(flushers') \ CreatedTasks(flushers)) = 1
       /\ (last'.op = "on_ready" /\ processor_running) =>
             /\ flushers' = flushers
             /\ kill_event_buffer' = kill_event_buffer]_vars

\* a ready signal is delivered after the task of the first one has run to
\* its end, and starts nothing
C34_Witness ==
    /\ last.op = "on_ready" /\ ~last.started
    /\ processor_running
    /\ \A s \in Slots : flushers[s].pc = "free"

(***************************************************************************)
(* Properties of the disabled processor, unavailability specification.     *)
(***************************************************************************)
\* C35: while the processor is disabled add_kill_event appends nothing, a
\* flush entered while it is disabled dispatches nothing and ends at once,
\* no step between disabling and re-enabling changes the buffer, and a
\* toggle inverts the enabled flag, so that two toggles restore it.
C35_DisabledFrame ==
    [][/\ (last'.op = "add" /\ ~processor_enabled) =>
             /\ last'.outcome = "disabled"
             /\ kill_event_buffer' = kill_event_buffer
       /\ \A s \in Slots :
             (FlushEnters(s) /\ ~processor_enabled) =>
                 /\ flushers' = [flushers EXCEPT ![s] = FreeFlusher]
                 /\ kill_event_buffer' = kill_event_buffer
       /\ (~processor_enabled /\ ~processor_enabled') =>
             kill_event_buffer' = kill_event_buffer
       /\ ToggleProcessor => processor_enabled' = ~processor_enabled]_vars

(***************************************************************************)
(* Properties of the running-task set, leaderboard specification.          *)
(***************************************************************************)
\* C36: in every state (each is a suspension point of the event loop) a
\* tuple is in running_tasks exactly if a run_leaderboard_task task for it
\* has been created and has not finished.
C36_SetMirrorsTasks ==
    \A id \in TaskIds : (id \in running_tasks) <=> (LiveTasks(id) > 0)

MaxArrive == 6
\* seconds between two arrivals
ArrivalGap == 13

NextArrival ==
    \/ /\ added < MaxArrive
       /\ now = added * ArrivalGap
       /\ AddKillEvent(SchedEvent)
    \/ now < added * ArrivalGap /\ Tick(ArrivalGap)
    \/ BotReady
    \/ OnReady
    \/ \E s \in Slots : ReadyTaskRun(s)
    \/ \E s \in Slots : GatherDone(s)
    \/ \E s \in Slots : \E u \in BagToSet(flushers[s].units) :
          \E resp \in Responses : UnitPremium(s, u, resp)
    \/ \E s \in Slots : \E u \in BagToSet(flushers[s].units) : UnitDbError(s, u)

SpecArrival == InitStats /\ [][NextArrival]_vars

\* C38: the killer's events arrive at most flood_threshold to any 60
\* seconds, and no per-event unit ends with its event dropped as flooding,
\* whenever the flush that processes it runs.
C38_NoFloodDropWithinRate ==
    last.op = "unit_done" => last.outcome # "flood"

====
